---- MODULE Spec2Model ----
(***************************************************************************)
(* Model of node/security_fix_patch.py: the optional-auth decorator        *)
(* public_endpoint and the three read endpoints /api/miners,               *)
(* /wallet/balance and /epoch.                                             *)
(*                                                                         *)
(* Encodings.                                                              *)
(*  - A Python value that may be None is a sequence of length 0 or 1:      *)
(*    None is << >>, the value v is <<v>>.                                 *)
(*  - A Python str the code inspects character by character (lower, upper, *)
(*    strip, the substring test "in") is a sequence of one-character       *)
(*    strings; the X-API-Key header and the admin secret, which the code   *)
(*    only tests for truthiness and equality, are TLA+ strings.            *)
(*  - A float of the weight table is an integer number of tenths           *)
(*    (1.0 is 10); amt / UNIT is the pair [num, den].                      *)
(***************************************************************************)
EXTENDS Integers, Sequences, FiniteSets, TLC

VARIABLES
    ADMIN_KEY,             \* the configured admin secret (None when unset)
    HARDWARE_WEIGHTS,      \* the static two-level weight table
    miner_attest_recent,   \* table: set of rows, one per miner
    miner_attest_history,  \* table, seen through SELECT MIN(ts_ok) per miner
    balances,              \* table: miner_id -> amount_i64
    epoch_enroll,          \* table, seen through SELECT COUNT(*) per epoch
    epoch_gauge,           \* the observability gauge (None until first set)
    call                   \* the last request served and its response

vars == <<ADMIN_KEY, HARDWARE_WEIGHTS, miner_attest_recent, miner_attest_history,
          balances, epoch_enroll, epoch_gauge, call>>

None == << >>
Some(v) == <<v>>

-----------------------------------------------------------------------------
(* Bounds of the model *)

\* largest epoch the slot clock reaches
MaxEpoch == 1
\* largest number of rows of epoch_enroll for one epoch
MaxEnrolled == 1
\* largest stored balance
MaxAmount == 2
\* longest miner_id query parameter, in characters
MaxIdLen == 2

-----------------------------------------------------------------------------
(* Python str operations *)

UpperChars == <<"A","B","C","D","E","F","G","H","I","J","K","L","M",
                "N","O","P","Q","R","S","T","U","V","W","X","Y","Z">>
LowerChars == <<"a","b","c","d","e","f","g","h","i","j","k","l","m",
                "n","o","p","q","r","s","t","u","v","w","x","y","z">>
Whitespace == {" ", "\t", "\n"}

\* the case maps of the ASCII letters; every other character maps to itself
ToLower == [c \in {UpperChars[i] : i \in 1..Len(UpperChars)} |->
               LowerChars[CHOOSE i \in 1..Len(UpperChars) : UpperChars[i] = c]]
ToUpper == [c \in {LowerChars[i] : i \in 1..Len(LowerChars)} |->
               UpperChars[CHOOSE i \in 1..Len(LowerChars) : LowerChars[i] = c]]

lowerChar(c) == IF c \in DOMAIN ToLower THEN ToLower[c] ELSE c

upperChar(c) == IF c \in DOMAIN ToUpper THEN ToUpper[c] ELSE c

\* s.lower()
lower(s) == [i \in 1..Len(s) |-> lowerChar(s[i])]

\* s.upper()
upper(s) == [i \in 1..Len(s) |-> upperChar(s[i])]

\* sub in s
contains(sub, s) ==
    \E i \in 0..(Len(s) - Len(sub)) : SubSeq(s, i + 1, i + Len(sub)) = sub

RECURSIVE lstrip(_)
lstrip(s) == IF s # << >> /\ Head(s) \in Whitespace THEN lstrip(Tail(s)) ELSE s

RECURSIVE rstrip(_)
rstrip(s) ==
    IF s # << >> /\ s[Len(s)] \in Whitespace
    THEN rstrip(SubSeq(s, 1, Len(s) - 1))
    ELSE s

\* s.strip()
strip(s) == rstrip(lstrip(s))

\* truthiness of an optional string held as a TLA+ string
Truthy(key) == key # None /\ key[1] # ""

-----------------------------------------------------------------------------
(* String literals of the source *)

s_unknown == <<"u","n","k","n","o","w","n">>
s_default == <<"d","e","f","a","u","l","t">>
s_powerpc == <<"p","o","w","e","r","p","c">>
s_ppc == <<"p","p","c">>
s_apple == <<"a","p","p","l","e">>
s_x86 == <<"x","8","6">>
s_modern == <<"m","o","d","e","r","n">>
s_retro == <<"r","e","t","r","o">>
s_core2 == <<"c","o","r","e","2">>
s_g3 == <<"g","3">>
s_g4 == <<"g","4">>
s_g5 == <<"g","5">>
s_m1 == <<"m","1">>
s_m2 == <<"m","2">>
s_m3 == <<"m","3">>
s_apple_silicon == <<"a","p","p","l","e","_","s","i","l","i","c","o","n">>

-----------------------------------------------------------------------------
(* Python dict and "or" *)

\* d.get(k, dflt)
dict_get(d, k, dflt) == IF k \in DOMAIN d THEN d[k] ELSE dflt

\* the empty dict {}
EmptyDict == << >>

\* v or "unknown", for an optional str v: None and "" are both falsy
or_unknown(v) == IF v = None \/ v[1] = << >> THEN s_unknown ELSE v[1]

-----------------------------------------------------------------------------
(* Credential checks *)

\* variant of decorated_is_admin without the truthiness guard on key
decorated_is_admin_unguarded(key) == key = ADMIN_KEY

\* public_endpoint.decorated: is_admin = key == ADMIN_KEY if key else False
\* (decorated reaches the handler through the name f, which the patch leaves
\* unbound; f is taken to be the decorated handler, api_miners)
decorated_is_admin(key) == IF Truthy(key) THEN key = ADMIN_KEY ELSE FALSE

\* api_wallet_balance: if key != ADMIN_KEY: return 401
api_wallet_balance_rejects(key) == key # ADMIN_KEY

\* get_epoch: is_authenticated = key == ADMIN_KEY if key else False
get_epoch_is_authenticated(key) == IF Truthy(key) THEN key = ADMIN_KEY ELSE FALSE

-----------------------------------------------------------------------------
(* /api/miners: the derived fields of one row *)

\* variant of mult with the fallback order collapsed: the family default wins
\* over the exact entry
mult_default_first(device_family, device_arch) ==
    LET title_fam == or_unknown(device_family)
        title_arch == or_unknown(device_arch)
    IN  dict_get(dict_get(HARDWARE_WEIGHTS, title_fam, EmptyDict), s_default,
                 dict_get(dict_get(HARDWARE_WEIGHTS, title_fam, EmptyDict), title_arch, 10))

\* mult = HARDWARE_WEIGHTS.get(title_fam, {}).get(title_arch,
\*            HARDWARE_WEIGHTS.get(title_fam, {}).get("default", 1.0))
mult(device_family, device_arch) ==
    LET title_fam == or_unknown(device_family)
        title_arch == or_unknown(device_arch)
    IN  dict_get(dict_get(HARDWARE_WEIGHTS, title_fam, EmptyDict), title_arch,
                 dict_get(dict_get(HARDWARE_WEIGHTS, title_fam, EmptyDict), s_default, 10))

\* variant of hw_type with the Apple branch tested before the PowerPC branch
hw_type_apple_first(device_family, device_arch) ==
    LET arch == lower(or_unknown(device_arch))
        fam == lower(or_unknown(device_family))
        title_arch == or_unknown(device_arch)
    IN  IF contains(s_apple, lower(fam)) \/ arch \in {s_m1, s_m2, s_m3, s_apple_silicon}
        THEN <<"Apple Silicon (Modern)">>
        ELSE IF contains(s_powerpc, fam) \/ contains(s_ppc, fam)
        THEN IF arch \in {s_g3, s_g4, s_g5}
             THEN <<"PowerPC ", upper(title_arch), " (Vintage)">>
             ELSE <<"PowerPC (Vintage)">>
        ELSE IF contains(s_x86, lower(fam)) \/ contains(s_modern, lower(fam))
        THEN IF contains(s_retro, arch) \/ contains(s_core2, arch)
             THEN <<"x86 Retro (Vintage)">>
             ELSE <<"x86-64 (Modern)">>
        ELSE <<"Unknown/Other">>

\* the if/elif chain computing hw_type; an f-string is the sequence of its parts
hw_type(device_family, device_arch) ==
    LET arch == lower(or_unknown(device_arch))
        fam == lower(or_unknown(device_family))
        title_arch == or_unknown(device_arch)
    IN  IF contains(s_powerpc, fam) \/ contains(s_ppc, fam)
        THEN IF arch \in {s_g3, s_g4, s_g5}
             THEN <<"PowerPC ", upper(title_arch), " (Vintage)">>
             ELSE <<"PowerPC (Vintage)">>
        ELSE IF contains(s_apple, lower(fam)) \/ arch \in {s_m1, s_m2, s_m3, s_apple_silicon}
        THEN <<"Apple Silicon (Modern)">>
        ELSE IF contains(s_x86, lower(fam)) \/ contains(s_modern, lower(fam))
        THEN IF contains(s_retro, arch) \/ contains(s_core2, arch)
             THEN <<"x86 Retro (Vintage)">>
             ELSE <<"x86-64 (Modern)">>
        ELSE <<"Unknown/Other">>

\* the try/except around SELECT MIN(ts_ok) ... WHERE miner = ?
\* q is what the query does for the miner: it raises, or it returns one row
\* whose first column is NULL (no history) or an integer;
\* first_attest = int(row2[0]) if row2 and row2[0] else None
first_attest(q) ==
    IF q.raises THEN None
    ELSE IF q.first_ts # None /\ q.first_ts[1] # 0 THEN Some(q.first_ts[1])
    ELSE None

\* r["entropy_score"] or 0.0
entropy_or_zero(e) == IF e = None \/ e[1] = 0 THEN 0 ELSE e[1]

\* miner_data as first built: the six public fields
miner_data_public(r) ==
    [miner |-> r.miner,
     last_attest |-> r.ts_ok,
     device_family |-> r.device_family,
     device_arch |-> r.device_arch,
     hardware_type |-> hw_type(r.device_family, r.device_arch),
     antiquity_multiplier |-> mult(r.device_family, r.device_arch)]

\* variant of miner_data that forgets first_attest in the authenticated branch
miner_data_without_first_attest(r, is_authenticated, history) ==
    IF is_authenticated
    THEN miner_data_public(r) @@ [entropy_score |-> entropy_or_zero(r.entropy_score)]
    ELSE miner_data_public(r)

\* miner_data as appended to miners, for one row r; history is the table
\* miner_attest_history
miner_data(r, is_authenticated, history) ==
    IF is_authenticated
    THEN miner_data_public(r) @@
         [first_attest |-> first_attest(history[r.miner]),
          entropy_score |-> entropy_or_zero(r.entropy_score)]
    ELSE miner_data_public(r)

\* the window of the WHERE clause: ts_ok > now - 3600
RecencyWindow == 3600

\* the possible results of fetchall(): the rows with ts_ok > now - 3600, newest
\* first; SQL leaves the order of rows with equal ts_ok open
recent_rows(now) ==
    LET sel == {r \in miner_attest_recent : r.ts_ok > now - RecencyWindow}
    IN  {rows \in [1..Cardinality(sel) -> sel] :
            /\ \A i, j \in 1..Cardinality(sel) : i # j => rows[i] # rows[j]
            /\ \A i, j \in 1..Cardinality(sel) : i < j => rows[i].ts_ok >= rows[j].ts_ok}

\* the list miners built by the for loop over rows
miners_list(rows, is_authenticated, history) ==
    [i \in 1..Len(rows) |-> miner_data(rows[i], is_authenticated, history)]

\* the queries the request runs: the main one, then one per row when authenticated
miners_queries(rows, is_authenticated) ==
    <<"miner_attest_recent">> \o
    (IF is_authenticated THEN [i \in 1..Len(rows) |-> "miner_attest_history"] ELSE << >>)

\* variant of api_miners without the try/except: an exception of a
\* first-attestation query fails the request
api_miners_uncaught(request_is_admin, rows, history) ==
    LET is_authenticated == request_is_admin
    IN  IF is_authenticated /\ \E i \in 1..Len(rows) : history[rows[i].miner].raises
        THEN [status |-> 500, body |-> << >>,
              queries |-> <<"miner_attest_recent", "miner_attest_history">>]
        ELSE [status |-> 200,
              body |-> miners_list(rows, is_authenticated, history),
              queries |-> miners_queries(rows, is_authenticated)]

\* the body of api_miners once the decorator has set request._is_admin and
\* fetchall() has returned rows: the response, and the queries it ran
api_miners(request_is_admin, rows, history) ==
    LET is_authenticated == request_is_admin
    IN  [status |-> 200,
         body |-> miners_list(rows, is_authenticated, history),
         queries |-> miners_queries(rows, is_authenticated)]

-----------------------------------------------------------------------------
(* /wallet/balance *)

\* the conversion constant of amount_rtc = amt / UNIT
UNIT == 1000000

\* variant of miner_id_of without strip()
miner_id_of_unstripped(arg) == IF arg = None THEN << >> ELSE arg[1]

\* miner_id = request.args.get("miner_id", "").strip(); arg is None when the
\* parameter is missing
miner_id_of(arg) == strip(IF arg = None THEN << >> ELSE arg[1])

\* variant of amt_of that reports a missing row as -1 instead of 0
amt_of_missing_is_error(row) == IF row # None THEN row[1] ELSE -1

\* amt = int(row[0]) if row else 0
amt_of(row) == IF row # None THEN row[1] ELSE 0

\* the whole of api_wallet_balance; arg is the miner_id query parameter (None
\* when missing), db is the balances table
api_wallet_balance(key, arg, db) ==
    IF api_wallet_balance_rejects(key)
    THEN [status |-> 401,
          body |-> [ok |-> FALSE, reason |-> "authentication_required",
                    message |-> "Provide X-API-Key header with valid admin key"],
          queries |-> << >>]
    ELSE LET miner_id == miner_id_of(arg)
         IN  IF miner_id = << >>
             THEN [status |-> 400,
                   body |-> [ok |-> FALSE, error |-> "miner_id required"],
                   queries |-> << >>]
             ELSE LET row == IF miner_id \in DOMAIN db THEN Some(db[miner_id]) ELSE None
                      amt == amt_of(row)
                  IN  [status |-> 200,
                       body |-> [miner_id |-> miner_id,
                                 amount_i64 |-> amt,
                                 amount_rtc |-> [num |-> amt, den |-> UNIT]],
                       queries |-> <<"balances">>]

-----------------------------------------------------------------------------
(* /epoch *)

\* slots per epoch
EPOCH_SLOTS == 144
\* the per-epoch reward pot, in tenths
PER_EPOCH_RTC == 15

slot_to_epoch(slot) == slot \div EPOCH_SLOTS

\* variant of get_epoch that updates the gauge for authenticated callers only
get_epoch_gauge_if_authenticated(key, slot, enroll, gauge) ==
    LET is_authenticated == get_epoch_is_authenticated(key)
        epoch == slot_to_epoch(slot)
        enrolled == enroll[epoch]
        response == [epoch |-> epoch, slot |-> slot, blocks_per_epoch |-> EPOCH_SLOTS]
    IN  [gauge |-> IF is_authenticated THEN Some(epoch) ELSE gauge,
         status |-> 200,
         queries |-> <<"epoch_enroll">>,
         body |-> IF is_authenticated
                  THEN response @@ [epoch_pot |-> PER_EPOCH_RTC, enrolled_miners |-> enrolled]
                  ELSE response]

\* the whole of get_epoch, given what current_slot() returned; enroll is the
\* table epoch_enroll as SELECT COUNT(*) ... WHERE epoch = ? sees it, gauge the
\* value of epoch_gauge before the request
get_epoch(key, slot, enroll, gauge) ==
    LET is_authenticated == get_epoch_is_authenticated(key)
        epoch == slot_to_epoch(slot)
        enrolled == enroll[epoch]
        response == [epoch |-> epoch, slot |-> slot, blocks_per_epoch |-> EPOCH_SLOTS]
    IN  [gauge |-> Some(epoch),
         status |-> 200,
         queries |-> <<"epoch_enroll">>,
         body |-> IF is_authenticated
                  THEN response @@ [epoch_pot |-> PER_EPOCH_RTC, enrolled_miners |-> enrolled]
                  ELSE response]

-----------------------------------------------------------------------------
(* Requests *)

HeaderValues == {None, Some(""), Some("k1"), Some("k2")}
\* the clock at a request, and the ts_ok of a row: one recency window apart
Times == {1, RecencyWindow + 1}
Slots == {e * EPOCH_SLOTS + d : e \in 0..MaxEpoch, d \in {0, EPOCH_SLOTS - 1}}
IdChars == {" ", "a", "b"}
IdStrings == UNION {[1..n -> IdChars] : n \in 0..MaxIdLen}
MinerIdArgs == {None} \cup {Some(s) : s \in IdStrings}

\* GET /api/miners with header value key, served at time now
ApiMiners ==
    \E key \in HeaderValues, now \in Times :
        \E rows \in recent_rows(now) :
            LET request_is_admin == decorated_is_admin(key)
                r == api_miners(request_is_admin, rows, miner_attest_history)
            IN  /\ call' = [endpoint |-> "/api/miners", key |-> key, now |-> now,
                            rows |-> rows, is_admin |-> request_is_admin,
                            status |-> r.status, body |-> r.body, queries |-> r.queries]
                /\ UNCHANGED <<ADMIN_KEY, HARDWARE_WEIGHTS, miner_attest_recent,
                               miner_attest_history, balances, epoch_enroll, epoch_gauge>>

\* GET /wallet/balance with header value key and query parameter miner_id = arg
ApiWalletBalance ==
    \E key \in HeaderValues, arg \in MinerIdArgs :
        LET r == api_wallet_balance(key, arg, balances)
        IN  /\ call' = [endpoint |-> "/wallet/balance", key |-> key, arg |-> arg,
                        is_admin |-> ~api_wallet_balance_rejects(key),
                        status |-> r.status, body |-> r.body, queries |-> r.queries]
            /\ UNCHANGED <<ADMIN_KEY, HARDWARE_WEIGHTS, miner_attest_recent,
                           miner_attest_history, balances, epoch_enroll, epoch_gauge>>

\* GET /epoch with header value key, when current_slot() is slot
GetEpoch ==
    \E key \in HeaderValues, slot \in Slots :
        LET r == get_epoch(key, slot, epoch_enroll, epoch_gauge)
        IN  /\ epoch_gauge' = r.gauge
            /\ call' = [endpoint |-> "/epoch", key |-> key, slot |-> slot,
                        is_admin |-> get_epoch_is_authenticated(key),
                        gauge_before |-> epoch_gauge,
                        status |-> r.status, body |-> r.body, queries |-> r.queries]
            /\ UNCHANGED <<ADMIN_KEY, HARDWARE_WEIGHTS, miner_attest_recent,
                           miner_attest_history, balances, epoch_enroll>>

-----------------------------------------------------------------------------
(* Data the stores and the configuration are drawn from *)

f_PowerPC == <<"P","o","w","e","r","P","C">>
f_ppc64 == <<"p","p","c","6","4">>
f_Apple == <<"A","p","p","l","e">>
f_x86_64 == <<"x","8","6","_","6","4">>
f_Modern == <<"M","o","d","e","r","n">>
f_ARM == <<"A","R","M">>
a_G4 == <<"G","4">>
a_G5 == <<"G","5">>
a_g3 == <<"g","3">>
a_M2 == <<"M","2">>
a_core2duo == <<"c","o","r","e","2","d","u","o">>
a_Retro == <<"R","e","t","r","o">>

Families == {None, Some(<< >>), Some(f_PowerPC), Some(f_ppc64), Some(f_Apple),
             Some(f_x86_64), Some(f_Modern), Some(f_ARM)}
Archs == {None, Some(<< >>), Some(a_G4), Some(a_g3), Some(a_M2), Some(s_apple_silicon),
          Some(a_core2duo), Some(a_Retro), Some(f_x86_64), Some(s_default)}

\* two shapes of the weight table: a family with exact entries and a default,
\* one with exact entries only, one with a default only
Weights1 ==
    (f_PowerPC :> ((a_G4 :> 25) @@ (a_G5 :> 20) @@ (s_default :> 15))) @@
    (f_x86_64 :> ((a_Retro :> 14) @@ (a_core2duo :> 13)))
Weights2 ==
    (f_PowerPC :> ((a_G4 :> 25) @@ (a_g3 :> 18))) @@
    (f_Apple :> (s_default :> 12)) @@
    (f_x86_64 :> ((s_default :> 8) @@ (f_x86_64 :> 9)))
WeightTables == {Weights1, Weights2}

AdminKeys == {None, Some(""), Some("k1")}
Miners == {"m1", "m2"}

\* (device_family, device_arch, entropy_score) of the rows of the small stores
SmallDevices == {<<Some(f_PowerPC), Some(a_G4), Some(7)>>,
                 <<Some(f_x86_64), None, None>>,
                 <<None, Some(a_M2), Some(3)>>}

MinerRow(m, ts, dev) ==
    [miner |-> m, ts_ok |-> ts, device_family |-> dev[1], device_arch |-> dev[2],
     entropy_score |-> dev[3]]

\* miner_attest_recent holds at most one row per miner
RecentStores ==
    {st \in SUBSET {MinerRow(m, ts, dev) : m \in Miners, ts \in Times, dev \in SmallDevices} :
        \A r1, r2 \in st : r1.miner = r2.miner => r1 = r2}

HistoryOutcomes == {[raises |-> TRUE, first_ts |-> None],
                    [raises |-> FALSE, first_ts |-> None],
                    [raises |-> FALSE, first_ts |-> Some(1)]}

StoredIds == {<<"a">>, <<"b">>}
BalanceStores == UNION {[ids -> 0..MaxAmount] : ids \in SUBSET StoredIds}

NoCall == [endpoint |-> "none"]

-----------------------------------------------------------------------------
(* Specifications *)

\* the three endpoints over one fixed small store, every configured secret
Init ==
    /\ ADMIN_KEY \in AdminKeys
    /\ HARDWARE_WEIGHTS = Weights1
    /\ miner_attest_recent = {MinerRow("m1", 1, <<Some(f_PowerPC), Some(a_G4), Some(7)>>)}
    /\ miner_attest_history = [m \in Miners |-> [raises |-> FALSE, first_ts |-> Some(1)]]
    /\ balances = (<<"a">> :> 1)
    /\ epoch_enroll = [e \in 0..MaxEpoch |-> 0]
    /\ epoch_gauge = None
    /\ call = NoCall

Next == ApiMiners \/ ApiWalletBalance \/ GetEpoch

Spec == Init /\ [][Next]_vars

\* /api/miners over every small attestation store
InitMiners ==
    /\ ADMIN_KEY \in AdminKeys
    /\ HARDWARE_WEIGHTS = Weights1
    /\ miner_attest_recent \in RecentStores
    /\ miner_attest_history \in [Miners -> HistoryOutcomes]
    /\ balances = EmptyDict
    /\ epoch_enroll = [e \in 0..MaxEpoch |-> 0]
    /\ epoch_gauge = None
    /\ call = NoCall

NextMiners == ApiMiners

SpecMiners == InitMiners /\ [][NextMiners]_vars

\* the two optional-auth endpoints, /api/miners and /epoch, over small stores
InitOptional ==
    /\ ADMIN_KEY \in AdminKeys
    /\ HARDWARE_WEIGHTS = Weights1
    /\ \E st1 \in SUBSET {MinerRow("m1", ts, dev) : ts \in Times, dev \in SmallDevices},
          st2 \in SUBSET {MinerRow("m2", 1, <<None, None, None>>)} :
          /\ Cardinality(st1) <= 1
          /\ miner_attest_recent = st1 \cup st2
    /\ \E q \in HistoryOutcomes :
          miner_attest_history = [m \in Miners |->
              IF m = "m1" THEN q ELSE [raises |-> FALSE, first_ts |-> Some(1)]]
    /\ balances = EmptyDict
    /\ epoch_enroll \in {[e \in 0..MaxEpoch |-> 0], [e \in 0..MaxEpoch |-> MaxEnrolled]}
    /\ epoch_gauge = None
    /\ call = NoCall

NextOptional == ApiMiners \/ GetEpoch

SpecOptional == InitOptional /\ [][NextOptional]_vars

\* /api/miners over one row of every (family, architecture) pair: the derived
\* fields as functions of the pair
InitHw ==
    /\ ADMIN_KEY = Some("k1")
    /\ HARDWARE_WEIGHTS \in WeightTables
    /\ \E fam \in Families, arch \in Archs :
          miner_attest_recent = {MinerRow("m1", 1, <<fam, arch, None>>)}
    /\ miner_attest_history = [m \in Miners |-> [raises |-> FALSE, first_ts |-> None]]
    /\ balances = EmptyDict
    /\ epoch_enroll = [e \in 0..MaxEpoch |-> 0]
    /\ epoch_gauge = None
    /\ call = NoCall

SpecHw == InitHw /\ [][NextMiners]_vars

\* /wallet/balance over every small balances table
InitBalance ==
    /\ ADMIN_KEY \in AdminKeys
    /\ HARDWARE_WEIGHTS = Weights1
    /\ miner_attest_recent = {}
    /\ miner_attest_history = [m \in Miners |-> [raises |-> FALSE, first_ts |-> None]]
    /\ balances \in BalanceStores
    /\ epoch_enroll = [e \in 0..MaxEpoch |-> 0]
    /\ epoch_gauge = None
    /\ call = NoCall

NextBalance == ApiWalletBalance

SpecBalance == InitBalance /\ [][NextBalance]_vars

\* /epoch over every small enrollment table
InitEpoch ==
    /\ ADMIN_KEY \in AdminKeys
    /\ HARDWARE_WEIGHTS = Weights1
    /\ miner_attest_recent = {}
    /\ miner_attest_history = [m \in Miners |-> [raises |-> FALSE, first_ts |-> None]]
    /\ balances = EmptyDict
    /\ epoch_enroll \in [0..MaxEpoch -> 0..MaxEnrolled]
    /\ epoch_gauge = None
    /\ call = NoCall

NextEpoch == GetEpoch

SpecEpoch == InitEpoch /\ [][NextEpoch]_vars

-----------------------------------------------------------------------------
(* Properties *)

\* the credential rule of the access policy: a presented header value is a
\* valid credential iff it is non-empty and equals the configured secret
ValidCredential(key) == key # None /\ key[1] # "" /\ key = ADMIN_KEY

PublicMinerFields == {"miner", "last_attest", "device_family", "device_arch",
                      "hardware_type", "antiquity_multiplier"}
RestrictedMinerFields == {"first_attest", "entropy_score"}
PublicEpochFields == {"epoch", "slot", "blocks_per_epoch"}
RestrictedEpochFields == {"epoch_pot", "enrolled_miners"}

AuthRequiredBody ==
    [ok |-> FALSE, reason |-> "authentication_required",
     message |-> "Provide X-API-Key header with valid admin key"]

\* C1: a /wallet/balance request without a valid credential (header absent,
\* empty, or different from the secret) runs no query and is answered 401 with
\* the authentication_required body, whatever miner_id is.
C1_BalanceRejectsInvalidCredential ==
    (call.endpoint = "/wallet/balance" /\ ~ValidCredential(call.key)) =>
        /\ call.status = 401
        /\ call.body = AuthRequiredBody
        /\ call.queries = << >>

\* C2: on each of the three endpoints the request is treated as admin iff the
\* presented credential is non-empty and equals the configured secret, for
\* every header value and every configured secret, unset and empty included.
C2_AdminIffValidCredential ==
    call.endpoint \in {"/api/miners", "/wallet/balance", "/epoch"} =>
        (call.is_admin <=> ValidCredential(call.key))

\* C3: a request to /api/miners or /epoch with no or an invalid credential is
\* answered with the public fields only: no miner object carries first_attest
\* or entropy_score, the epoch object carries neither epoch_pot nor
\* enrolled_miners.
C3_AnonymousSeesOnlyPublicFields ==
    /\ (call.endpoint = "/api/miners" /\ ~ValidCredential(call.key)) =>
          \A i \in 1..Len(call.body) : DOMAIN call.body[i] = PublicMinerFields
    /\ (call.endpoint = "/epoch" /\ ~ValidCredential(call.key)) =>
          DOMAIN call.body = PublicEpochFields

C3_Witness ==
    /\ call.endpoint = "/api/miners"
    /\ ADMIN_KEY = Some("k1")
    /\ call.key = Some("k2")
    /\ Len(call.body) = 2

\* the admin response of the last call is the anonymous response over the same
\* store state with exactly the restricted fields added
AdminResponseIsSuperset ==
    /\ call.endpoint = "/api/miners" =>
          LET anon == api_miners(FALSE, call.rows, miner_attest_history).body
          IN  /\ Len(call.body) = Len(anon)
              /\ \A i \in 1..Len(anon) :
                    /\ DOMAIN anon[i] = PublicMinerFields
                    /\ DOMAIN call.body[i] = PublicMinerFields \cup RestrictedMinerFields
                    /\ \A f \in PublicMinerFields : call.body[i][f] = anon[i][f]
    /\ call.endpoint = "/epoch" =>
          LET anon == get_epoch(None, call.slot, epoch_enroll, call.gauge_before).body
          IN  /\ DOMAIN anon = PublicEpochFields
              /\ DOMAIN call.body = PublicEpochFields \cup RestrictedEpochFields
              /\ \A f \in PublicEpochFields : call.body[f] = anon[f]

AllWhitespace(s) == \A i \in 1..Len(s) : s[i] \in Whitespace

\* t is s without its leading and trailing whitespace
IsTrimOf(t, s) ==
    \E i \in 1..(Len(s) + 1), j \in 0..Len(s) :
        /\ t = SubSeq(s, i, j)
        /\ \A k \in 1..(i - 1) : s[k] \in Whitespace
        /\ \A k \in (j + 1)..Len(s) : s[k] \in Whitespace
        /\ t # << >> => (t[1] \notin Whitespace /\ t[Len(t)] \notin Whitespace)

\* C5: a /wallet/balance request with a valid credential and a miner_id that is
\* missing or empty after trimming is answered 400 with the "miner_id
\* required" body, whatever the balances table holds, and runs no query.
C5_EmptyMinerIdIsBadRequest ==
    (/\ call.endpoint = "/wallet/balance"
     /\ ValidCredential(call.key)
     /\ (call.arg = None \/ AllWhitespace(call.arg[1]))) =>
        /\ call.status = 400
        /\ call.body = [ok |-> FALSE, error |-> "miner_id required"]
        /\ call.queries = << >>

C5_Witness ==
    /\ call.endpoint = "/wallet/balance"
    /\ ValidCredential(call.key)
    /\ call.arg = Some(<<" ", " ">>)
    /\ balances # EmptyDict
    /\ call.status = 400

\* C6: a /wallet/balance request with a valid credential and a non-empty
\* miner_id succeeds; miner_id in the response is the trimmed parameter;
\* amount_i64 is the stored integer, or 0 when the table has no row for it;
\* amount_rtc is amount_i64 / UNIT.
C6_BalanceOfMiner ==
    (/\ call.endpoint = "/wallet/balance"
     /\ ValidCredential(call.key)
     /\ call.arg # None
     /\ ~AllWhitespace(call.arg[1])) =>
        /\ call.status = 200
        /\ DOMAIN call.body = {"miner_id", "amount_i64", "amount_rtc"}
        /\ IsTrimOf(call.body.miner_id, call.arg[1])
        /\ call.body.miner_id \in DOMAIN balances =>
              call.body.amount_i64 = balances[call.body.miner_id]
        /\ call.body.miner_id \notin DOMAIN balances => call.body.amount_i64 = 0
        /\ call.body.amount_rtc = [num |-> call.body.amount_i64, den |-> UNIT]

C6_Witness ==
    /\ call.endpoint = "/wallet/balance"
    /\ ValidCredential(call.key)
    /\ call.arg = Some(<<" ", "b">>)
    /\ <<"a">> \in DOMAIN balances
    /\ <<"b">> \notin DOMAIN balances
    /\ call.status = 200
    /\ call.body.amount_i64 = 0

\* the hardware label the classification rules give to a (family,
\* architecture) pair: null is read as "unknown", matching is on the
\* lower-cased strings, the first rule that applies decides
LabelOf(family, architecture) ==
    LET F == lower(IF family = None THEN s_unknown ELSE family[1])
        A == lower(IF architecture = None THEN s_unknown ELSE architecture[1])
        isPowerPC == contains(s_powerpc, F) \/ contains(s_ppc, F)
        isApple == contains(s_apple, F) \/ A \in {s_m1, s_m2, s_m3, s_apple_silicon}
        isX86 == contains(s_x86, F) \/ contains(s_modern, F)
    IN  CASE isPowerPC /\ A = s_g3 -> <<"PowerPC ", <<"G", "3">>, " (Vintage)">>
          [] isPowerPC /\ A = s_g4 -> <<"PowerPC ", <<"G", "4">>, " (Vintage)">>
          [] isPowerPC /\ A = s_g5 -> <<"PowerPC ", <<"G", "5">>, " (Vintage)">>
          [] isPowerPC /\ A \notin {s_g3, s_g4, s_g5} -> <<"PowerPC (Vintage)">>
          [] ~isPowerPC /\ isApple -> <<"Apple Silicon (Modern)">>
          [] ~isPowerPC /\ ~isApple /\ isX86 /\ (contains(s_retro, A) \/ contains(s_core2, A)) ->
                <<"x86 Retro (Vintage)">>
          [] ~isPowerPC /\ ~isApple /\ isX86 /\ ~(contains(s_retro, A) \/ contains(s_core2, A)) ->
                <<"x86-64 (Modern)">>
          [] ~isPowerPC /\ ~isApple /\ ~isX86 -> <<"Unknown/Other">>

\* C7: the hardware_type of every miner of a /api/miners response is the label
\* the classification rules give to its (family, architecture) pair, null
\* family or architecture included.
C7_HardwareTypeFollowsRules ==
    call.endpoint = "/api/miners" =>
        \A i \in 1..Len(call.body) :
            call.body[i].hardware_type =
                LabelOf(call.rows[i].device_family, call.rows[i].device_arch)

C7_Witness ==
    /\ call.endpoint = "/api/miners"
    /\ Len(call.body) = 1
    /\ call.rows[1].device_family = Some(f_ppc64)
    /\ call.rows[1].device_arch = Some(a_g3)
    /\ call.body[1].hardware_type = <<"PowerPC ", <<"G", "3">>, " (Vintage)">>

\* the multiplier the three-level fallback gives: the exact entry, else the
\* family's "default" entry, else 1.0
MultiplierOf(family, architecture) ==
    LET F == IF family = None THEN s_unknown ELSE family[1]
        A == IF architecture = None THEN s_unknown ELSE architecture[1]
    IN  IF F \in DOMAIN HARDWARE_WEIGHTS /\ A \in DOMAIN HARDWARE_WEIGHTS[F]
        THEN HARDWARE_WEIGHTS[F][A]
        ELSE IF F \in DOMAIN HARDWARE_WEIGHTS /\ s_default \in DOMAIN HARDWARE_WEIGHTS[F]
        THEN HARDWARE_WEIGHTS[F][s_default]
        ELSE 10

\* C8: the antiquity_multiplier of every miner of a /api/miners response is
\* the exact table entry of its (family, architecture) pair if there is one,
\* else the family's "default" entry if there is one, else 1.0; a pair whose
\* family has no entry at all gets 1.0.
C8_MultiplierFallbackOrder ==
    call.endpoint = "/api/miners" =>
        \A i \in 1..Len(call.body) :
            LET r == call.rows[i]
            IN  /\ call.body[i].antiquity_multiplier =
                      MultiplierOf(r.device_family, r.device_arch)
                /\ (r.device_family = None \/ r.device_family[1] \notin DOMAIN HARDWARE_WEIGHTS) =>
                      call.body[i].antiquity_multiplier = 10

C8_Witness ==
    /\ call.endpoint = "/api/miners"
    /\ Len(call.body) = 1
    /\ HARDWARE_WEIGHTS = Weights1
    /\ call.rows[1].device_family = Some(f_PowerPC)
    /\ call.rows[1].device_arch = Some(a_G4)
    /\ call.body[1].antiquity_multiplier = 25

\* the first-attestation lookup of miner m fails: the query raises or finds
\* no history
LookupFails(m) ==
    miner_attest_history[m].raises \/ miner_attest_history[m].first_ts = None

\* C9: in an admin /api/miners response, a miner whose first-attestation
\* lookup raises or finds nothing has first_attest null; the request still
\* succeeds with every miner present in the order of the rows; and every other
\* field of the response is what it would be had that lookup succeeded.
C9_LookupFailureIsIsolated ==
    (call.endpoint = "/api/miners" /\ call.is_admin) =>
        \A i \in 1..Len(call.rows) :
            LookupFails(call.rows[i].miner) =>
                LET succeeded == [miner_attest_history EXCEPT
                                     ![call.rows[i].miner] =
                                         [raises |-> FALSE, first_ts |-> Some(1)]]
                    other == api_miners(TRUE, call.rows, succeeded)
                IN  /\ call.status = 200
                    /\ Len(call.body) = Len(call.rows)
                    /\ \A j \in 1..Len(call.rows) : call.body[j].miner = call.rows[j].miner
                    /\ call.body[i].first_attest = None
                    /\ other.status = call.status
                    /\ other.body[i].first_attest = Some(1)
                    /\ \A j \in 1..Len(call.rows) :
                          \A f \in PublicMinerFields \cup RestrictedMinerFields :
                              (j # i \/ f # "first_attest") =>
                                  call.body[j][f] = other.body[j][f]

C9_Witness ==
    /\ call.endpoint = "/api/miners"
    /\ call.is_admin
    /\ Len(call.rows) = 2
    /\ miner_attest_history[call.rows[1].miner].raises
    /\ ~LookupFails(call.rows[2].miner)
    /\ call.body[1].first_attest = None
    /\ call.body[2].first_attest = Some(1)

\* C10: every /epoch request, authenticated or not, sets the gauge to the
\* epoch of the current slot and runs the enrolled-miners count query; the
\* same request with any other credential leaves the same gauge, runs the
\* same queries, and differs only in the restricted fields of the response.
C10_EpochSideEffectsIgnoreCredential ==
    call.endpoint = "/epoch" =>
        /\ epoch_gauge = Some(slot_to_epoch(call.slot))
        /\ call.queries = <<"epoch_enroll">>
        /\ \A key \in HeaderValues :
              LET other == get_epoch(key, call.slot, epoch_enroll, call.gauge_before)
              IN  /\ other.gauge = epoch_gauge
                  /\ other.queries = call.queries
                  /\ other.status = call.status
                  /\ \A f \in PublicEpochFields : other.body[f] = call.body[f]

C10_Witness ==
    /\ call.endpoint = "/epoch"
    /\ ~call.is_admin
    /\ call.gauge_before = Some(0)
    /\ epoch_gauge = Some(1)
    /\ call.queries = <<"epoch_enroll">>

====
